---- MODULE Spec2Model ----
(***************************************************************************)
(* A model of the Automation-Framework repository:                         *)
(*   - the credential store and credential resolution of                   *)
(*     Suites/Linkdin/chatgpt_login.py (SecureCredentialManager,           *)
(*     ChatGPTLogin.get_credentials);                                      *)
(*   - the REST endpoints and exception handlers of api_server.py.         *)
(* Strings whose content matters (emails, passwords, typed answers, file   *)
(* names) are sequences of characters; files are records tagged by kind.   *)
(***************************************************************************)
EXTENDS Integers, Sequences, FiniteSets, TLC

\* ------------------------------------------------------------------ bounds
\* Number of SecureCredentialManager objects constructed in one behaviour.
MaxMgrs == 2

Mgrs == 1..MaxMgrs

\* ------------------------------------------------------------ string helpers
Space == " "

RECURSIVE LStrip(_)
\* str.strip(), left half: drop leading whitespace.
LStrip(s) == IF s # <<>> /\ Head(s) = Space THEN LStrip(Tail(s)) ELSE s

RECURSIVE RStrip(_)
\* str.strip(), right half: drop trailing whitespace.
RStrip(s) ==
  IF s # <<>> /\ s[Len(s)] = Space THEN RStrip(SubSeq(s, 1, Len(s) - 1)) ELSE s

\* str.strip()
Strip(s) == RStrip(LStrip(s))

\* str.lower() on one character of the alphabet used here.
LowerChar(c) ==
  CASE c = "Y" -> "y"
    [] c = "E" -> "e"
    [] c = "S" -> "s"
    [] c = "N" -> "n"
    [] c = "T" -> "t"
    [] c = "X" -> "x"
    [] c = "M" -> "m"
    [] c = "D" -> "d"
    [] OTHER -> c

\* str.lower()
Lower(s) == [i \in DOMAIN s |-> LowerChar(s[i])]

\* Python truthiness of the value of os.getenv / of a str: None and "" are false.
NoneStr == <<"<None>">>
Truthy(s) == s # NoneStr /\ s # <<>>

\* ------------------------------------------------------------------- files
Absent == [kind |-> "absent"]
EmptyFile == [kind |-> "empty"]
KeyContent(k) == [kind |-> "key", key |-> k]
Exists(f) == f.kind # "absent"

\* The faults the operating system can inject into one call: a stat() that
\* fails with an errno pathlib does not ignore, an open()/read() for reading
\* that fails, an open() for writing that fails, a write()/close() that fails
\* after the file was opened (and truncated), an unlink() that fails.
KeyFaults == {"stat", "read", "open", "write"}
SaveFaults == {"open", "write"}
LoadFaults == {"stat", "read"}
ClearFaults == {"stat", "unlink"}
\* get_credentials loads and then may save: the fault sets that differ in
\* what the call runs into (a failing stat ends the call; a failing open
\* leaves nothing to write).
GetFaultSets ==
  {{}, {"stat"}, {"read"}, {"open"}, {"write"}, {"read", "open"}, {"read", "write"}}

\* --------------------------------------------------------- return values
None == [kind |-> "None"]
Bool(b) == [kind |-> "bool", val |-> b]
Dict(d) == [kind |-> "dict", val |-> d]
Pair(a, b) == [kind |-> "tuple", email |-> a, password |-> b]
Raise(e) == [kind |-> "raise", exc |-> e]

VARIABLES
  key_file,          \* contents of the key file ".chatgpt_key"
  credentials_file,  \* contents of ".chatgpt_credentials"
  cipher_key,        \* cipher_key[m]: self.key of manager m, 0 before construction
  generated,         \* number of keys Fernet.generate_key has produced so far
  last,              \* the last call: operation, manager, arguments, faults, result
  lastSave,          \* observation: the latest successful save since the last successful clear
  touched            \* observation: a failed save or clear call followed lastSave

credVars == <<key_file, credentials_file, cipher_key, generated, last, lastSave, touched>>

\* The state of the API server (api_server.py).
VARIABLES
  fs,        \* the paths of the regular files that exist
  file_seq,  \* number of files created so far (each gets a name of its own)
  request,   \* the last request: endpoint, input, what the endpoint did
  response   \* the response the client received to it

apiVars == <<fs, file_seq, request, response>>

\* The state of a run of the content pipeline (pipeline.py and the stage
\* functions); the stage functions write into the output directory, fs.
VARIABLES
  main,   \* pipeline.main: its position and its local variables
  frame,  \* the stage function call in progress, NoFrame when there is none
  ret     \* the stage function call that finished last, and how

pipeVars == <<main, frame, ret>>

\* The state of a browser run (run_login_test, test_chatgpt).
VARIABLES
  session  \* the function running, its position, the WebDriver, what it did

browserVars == <<session>>

vars == <<credVars, apiVars, pipeVars, browserVars>>


\* ------------------------------------------------- inputs of the credential store
\* Emails and passwords handed to save_credentials (one of each has whitespace
\* at an end, one has none).
Emails == {<<"a">>, <<" ", "b">>}
Passwords == {<<"p">>, <<"q", " ">>}
\* Values time.time() returns.
Timestamps == {100}
\* Values of CHATGPT_EMAIL (unset or set) and CHATGPT_PASSWORD (set to "" or set).
EnvEmails == {NoneStr, <<"e">>}
EnvPasswords == {<<>>, <<"w">>}
\* What the user types at the three prompts.
TypedEmails == {<<" ", "t", " ">>}
TypedPasswords == {<<"s">>}
Answers == {<<"y">>, <<" ", "Y", "E", "S">>, <<"y", "e">>, <<"n">>, <<>>}

\* ------------------------------------------------------- the cipher, as used
\* json.dumps of the credentials dict: the items in insertion order.
json_dumps(d) ==
  << <<"email", d.email>>, <<"password", d.password>>, <<"timestamp", d.timestamp>> >>

\* json.loads: the dict of the items of the text.
json_loads(text) ==
  [k \in {text[i][1] : i \in DOMAIN text} |->
     text[CHOOSE i \in DOMAIN text : text[i][1] = k][2]]

\* Fernet(key).encrypt: a token only the same key opens.
fernet_encrypt(key, plain) == [kind |-> "token", key |-> key, plain |-> plain]

\* Fernet(key).decrypt succeeds on a token made under the same key and raises
\* InvalidToken on everything else (another key's token, empty bytes).
fernet_valid(key, bytes) == bytes.kind = "token" /\ bytes.key = key

\* base64.b64encode(...).decode(): text without whitespace.
b64encode(bytes) == [kind |-> "b64", of |-> bytes]

\* base64.b64decode: the bytes of a base64 text; the empty text gives empty bytes.
b64decode(text) == IF text.kind = "b64" THEN text.of ELSE EmptyFile

\* f.read().strip() on the blob: base64 text has no whitespace to strip, and
\* the empty file stays empty.
read_strip(content) == content

encrypt_credentials(key, credentials) ==
  b64encode(fernet_encrypt(key, json_dumps(credentials)))

\* _decrypt_credentials: the dict, or the exception the decryption raises.
decrypt_credentials(key, encrypted_data) ==
  LET encrypted_bytes == b64decode(encrypted_data) IN
  IF fernet_valid(key, encrypted_bytes)
    THEN Dict(json_loads(encrypted_bytes.plain))
    ELSE Raise("InvalidToken")

\* --------------------------------------------------- SecureCredentialManager
\* Each operation below takes the set F of faults the operating system would
\* inject and gives, besides its result, the set hit of the faults the call
\* actually ran into.

\* _load_or_generate_key; fresh is the key generate_key would return. exc is
\* the exception that leaves the method, "" if none.
load_or_generate_key(kf, F, fresh) ==
  IF "stat" \in F
    THEN [exc |-> "PermissionError", key |-> EmptyFile, file |-> kf,
          gen |-> FALSE, hit |-> {"stat"}]
  ELSE IF Exists(kf) /\ "read" \notin F
    THEN [exc |-> "", key |-> kf, file |-> kf, gen |-> FALSE, hit |-> {}]
  ELSE [exc |-> "", key |-> KeyContent(fresh), gen |-> TRUE,
        file |-> IF "open" \in F THEN kf
                 ELSE IF "write" \in F THEN EmptyFile
                 ELSE KeyContent(fresh),
        hit |-> (IF Exists(kf) THEN {"read"} ELSE {})
                \cup (IF "open" \in F THEN {"open"}
                      ELSE IF "write" \in F THEN {"write"} ELSE {})]

\* __init__: the key of _load_or_generate_key becomes the manager's, unless
\* Fernet(key) rejects it (the bytes of an empty key file are no key) and the
\* constructor raises ValueError.
manager_init(kf, F, fresh) ==
  LET r == load_or_generate_key(kf, F, fresh) IN
  IF r.exc = "" /\ r.key.kind # "key"
    THEN [exc |-> "ValueError", key |-> r.key, file |-> r.file,
          gen |-> r.gen, hit |-> r.hit]
    ELSE r

\* A variant of credentials_dict that stores the two values under each other's key.
credentials_dict_swapped(email, password, ts) ==
  [email |-> password, password |-> email, timestamp |-> ts]

\* The dict save_credentials builds from its arguments.
credentials_dict(email, password, ts) ==
  [email |-> email, password |-> password, timestamp |-> ts]

\* A variant of write_file that keeps a blob the file already holds (a file
\* opened for appending, read back from its start).
write_file_keep(old, new) == IF old.kind = "b64" THEN old ELSE new

\* open(credentials_file, 'w') and f.write: the new content replaces the old.
write_file(old, new) == new

\* save_credentials: the value returned and the credential file afterwards.
save_credentials(key, file, email, password, ts, F) ==
  LET credentials == credentials_dict(email, password, ts)
      encrypted_credentials == encrypt_credentials(key, credentials)
  IN IF "open" \in F THEN [ret |-> Bool(FALSE), file |-> file, hit |-> {"open"}]
     ELSE IF "write" \in F
       THEN [ret |-> Bool(FALSE), file |-> EmptyFile, hit |-> {"write"}]
     ELSE [ret |-> Bool(TRUE), file |-> write_file(file, encrypted_credentials),
           hit |-> {}]

\* A variant of load_credentials that lets the failure of the decryption
\* leave the method.
load_credentials_reraise(key, file, F) ==
  IF "stat" \in F
    THEN [ret |-> Raise("PermissionError"), file |-> file, hit |-> {"stat"}]
  ELSE IF ~Exists(file) THEN [ret |-> None, file |-> file, hit |-> {}]
  ELSE IF "read" \in F THEN [ret |-> None, file |-> file, hit |-> {"read"}]
  ELSE LET credentials == decrypt_credentials(key, read_strip(file)) IN
       IF credentials.kind = "raise"
         THEN [ret |-> credentials, file |-> file, hit |-> {}]
       ELSE [ret |-> credentials, file |-> file, hit |-> {}]

\* load_credentials: the value returned (or the exception that propagates)
\* and the credential file afterwards.
load_credentials(key, file, F) ==
  IF "stat" \in F
    THEN [ret |-> Raise("PermissionError"), file |-> file, hit |-> {"stat"}]
  ELSE IF ~Exists(file) THEN [ret |-> None, file |-> file, hit |-> {}]
  ELSE IF "read" \in F THEN [ret |-> None, file |-> file, hit |-> {"read"}]
  ELSE LET credentials == decrypt_credentials(key, read_strip(file)) IN
       IF credentials.kind = "raise" THEN [ret |-> None, file |-> file, hit |-> {}]
       ELSE IF "email" \notin DOMAIN credentials.val
         THEN [ret |-> None, file |-> file, hit |-> {}]
       ELSE [ret |-> credentials, file |-> file, hit |-> {}]

\* A variant of clear_credentials that empties the file instead of removing it.
clear_credentials_truncate(file, F) ==
  IF "stat" \in F THEN [ret |-> Bool(FALSE), file |-> file, hit |-> {"stat"}]
  ELSE IF ~Exists(file) THEN [ret |-> Bool(TRUE), file |-> file, hit |-> {}]
  ELSE IF "unlink" \in F
    THEN [ret |-> Bool(FALSE), file |-> file, hit |-> {"unlink"}]
  ELSE [ret |-> Bool(TRUE), file |-> EmptyFile, hit |-> {}]

\* clear_credentials: the value returned and the credential file afterwards.
clear_credentials(file, F) ==
  IF "stat" \in F THEN [ret |-> Bool(FALSE), file |-> file, hit |-> {"stat"}]
  ELSE IF ~Exists(file) THEN [ret |-> Bool(TRUE), file |-> file, hit |-> {}]
  ELSE IF "unlink" \in F
    THEN [ret |-> Bool(FALSE), file |-> file, hit |-> {"unlink"}]
  ELSE [ret |-> Bool(TRUE), file |-> Absent, hit |-> {}]

\* A variant of env_credentials_set that is satisfied by either variable.
env_credentials_set_either(envEmail, envPassword) ==
  Truthy(envEmail) \/ Truthy(envPassword)

\* `if email and password` on the two values of os.getenv.
env_credentials_set(envEmail, envPassword) ==
  Truthy(envEmail) /\ Truthy(envPassword)

\* A variant of save_chosen that takes any answer starting with y for a yes.
save_chosen_prefix(answer) ==
  LET save_choice == Lower(Strip(answer)) IN
  save_choice # <<>> /\ Head(save_choice) = "y"

\* `save_choice in ['y', 'yes']` on the stripped, lower-cased answer.
save_chosen(answer) ==
  LET save_choice == Lower(Strip(answer)) IN
  save_choice \in {<<"y">>, <<"y", "e", "s">>}

\* ChatGPTLogin.get_credentials: the value returned, the credential file
\* afterwards, and what the call did on the way (readStorage: load_credentials
\* was called; prompted: input() was called; saveRet: what save_credentials
\* returned, None if it was not called).
get_credentials(key, file, envEmail, envPassword, typedEmail, typedPassword, answer, ts, F) ==
  IF env_credentials_set(envEmail, envPassword)
    THEN [ret |-> Pair(envEmail, envPassword), file |-> file, hit |-> {},
          readStorage |-> FALSE, prompted |-> FALSE, saveRet |-> None]
  ELSE LET l == load_credentials(key, file, F \cap LoadFaults) IN
    IF l.ret.kind = "raise"
      THEN [ret |-> l.ret, file |-> l.file, hit |-> l.hit,
            readStorage |-> TRUE, prompted |-> FALSE, saveRet |-> None]
    ELSE IF l.ret.kind = "dict"
      THEN [ret |-> Pair(l.ret.val.email, l.ret.val.password),
            file |-> l.file, hit |-> l.hit,
            readStorage |-> TRUE, prompted |-> FALSE, saveRet |-> None]
    ELSE LET email == Strip(typedEmail)
             password == Strip(typedPassword)
         IN IF save_chosen(answer)
              THEN LET s == save_credentials(key, l.file, email, password, ts,
                                             F \cap SaveFaults)
                   IN [ret |-> Pair(email, password), file |-> s.file,
                       hit |-> l.hit \cup s.hit,
                       readStorage |-> TRUE, prompted |-> TRUE, saveRet |-> s.ret]
              ELSE [ret |-> Pair(email, password), file |-> l.file, hit |-> l.hit,
                    readStorage |-> TRUE, prompted |-> TRUE, saveRet |-> None]

\* ------------------------------------------------------------------ actions
NoSave == [kind |-> "none"]
SomeSave(m, e, p) == [kind |-> "some", mgr |-> m, email |-> e, password |-> p]

InitCred ==
  /\ key_file = Absent
  /\ credentials_file = Absent
  /\ cipher_key = [m \in Mgrs |-> 0]
  /\ generated = 0
  /\ last = [op |-> "start"]
  /\ lastSave = NoSave
  /\ touched = FALSE

\* SecureCredentialManager.__init__: managers are constructed in the order of
\* their numbers.
Construct(m, F) ==
  /\ cipher_key[m] = 0
  /\ \A n \in Mgrs : n < m => cipher_key[n] # 0
  /\ \E r \in {manager_init(key_file, F, generated + 1)} :
        /\ key_file' = r.file
        /\ generated' = IF r.gen THEN generated + 1 ELSE generated
        /\ cipher_key' = IF r.exc = "" THEN [cipher_key EXCEPT ![m] = r.key.key]
                         ELSE cipher_key
        /\ last' = [op |-> "init", mgr |-> m, hit |-> r.hit,
                    ret |-> IF r.exc = "" THEN None ELSE Raise(r.exc),
                    gen |-> r.gen, existed |-> Exists(key_file),
                    changed |-> (Exists(key_file) /\ r.file # key_file)]
  /\ UNCHANGED <<credentials_file, lastSave, touched>>
  /\ UNCHANGED <<apiVars, pipeVars, browserVars>>

Save(m, email, password, ts, F) ==
  /\ cipher_key[m] # 0
  /\ \E r \in {save_credentials(cipher_key[m], credentials_file, email, password, ts, F)} :
        /\ credentials_file' = r.file
        /\ last' = [op |-> "save", mgr |-> m, hit |-> r.hit, ret |-> r.ret,
                    existed |-> Exists(credentials_file),
                    changed |-> (r.file # credentials_file)]
        /\ lastSave' = IF r.ret = Bool(TRUE) THEN SomeSave(m, email, password)
                       ELSE lastSave
        /\ touched' = (r.ret # Bool(TRUE))
  /\ UNCHANGED <<key_file, cipher_key, generated>>
  /\ UNCHANGED <<apiVars, pipeVars, browserVars>>

Load(m, F) ==
  /\ cipher_key[m] # 0
  /\ \E r \in {load_credentials(cipher_key[m], credentials_file, F)} :
        /\ credentials_file' = r.file
        /\ last' = [op |-> "load", mgr |-> m, hit |-> r.hit, ret |-> r.ret,
                    existed |-> Exists(credentials_file),
                    changed |-> (r.file # credentials_file)]
  /\ UNCHANGED <<key_file, cipher_key, generated, lastSave, touched>>
  /\ UNCHANGED <<apiVars, pipeVars, browserVars>>

Clear(m, F) ==
  /\ cipher_key[m] # 0
  /\ \E r \in {clear_credentials(credentials_file, F)} :
        /\ credentials_file' = r.file
        /\ last' = [op |-> "clear", mgr |-> m, hit |-> r.hit, ret |-> r.ret,
                    existed |-> Exists(credentials_file),
                    changed |-> (r.file # credentials_file)]
        /\ lastSave' = IF r.ret = Bool(TRUE) THEN NoSave ELSE lastSave
        /\ touched' = (r.ret # Bool(TRUE))
  /\ UNCHANGED <<key_file, cipher_key, generated>>
  /\ UNCHANGED <<apiVars, pipeVars, browserVars>>

\* ChatGPTLogin.get_credentials on the handler whose credential_manager is m:
\* the handler of the current run of the program, whose manager is the one
\* constructed last.
GetCredentials(m, envEmail, envPassword, typedEmail, typedPassword, answer, ts, F) ==
  /\ cipher_key[m] # 0
  /\ \A n \in Mgrs : n > m => cipher_key[n] = 0
  /\ \E r \in {get_credentials(cipher_key[m], credentials_file, envEmail,
                              envPassword, typedEmail, typedPassword, answer, ts, F)} :
        /\ credentials_file' = r.file
        /\ last' = [op |-> "get", mgr |-> m, hit |-> r.hit, ret |-> r.ret,
                    envEmail |-> envEmail, envPassword |-> envPassword,
                    typedEmail |-> typedEmail, typedPassword |-> typedPassword,
                    answer |-> answer, readStorage |-> r.readStorage,
                    prompted |-> r.prompted, saveRet |-> r.saveRet,
                    existed |-> Exists(credentials_file),
                    changed |-> (r.file # credentials_file),
                    pre |-> credentials_file]
        /\ lastSave' = IF r.saveRet = Bool(TRUE)
                         THEN SomeSave(m, r.ret.email, r.ret.password)
                         ELSE lastSave
        /\ touched' = IF r.saveRet = None THEN touched
                      ELSE (r.saveRet # Bool(TRUE))
  /\ UNCHANGED <<key_file, cipher_key, generated>>
  /\ UNCHANGED <<apiVars, pipeVars, browserVars>>

\* =========================================================== api_server.py
\* Messages are sequences of text fragments; file names are strings, the
\* names of uploaded files sequences of characters while they are examined.

\* ------------------------------------------------------------------ bounds
\* Number of files the endpoints and the stage functions create in one behaviour.
MaxFiles == 2

\* The literal 5000 of generate_voice_endpoint.
MaxTextLength == 5000

BASE_DIR == <<"app">>
OUTPUT_DIR == BASE_DIR \o <<"output">>
\* The directories that exist (OUTPUT_DIR is created at import).
Dirs == {<<>>, BASE_DIR, OUTPUT_DIR}

\* ----------------------------------------------------------------- inputs
Topics == {<<>>, <<" ">>, <<"t">>, <<" ", "t">>}
\* A text is known by its length and by whether strip() leaves nothing of it.
Texts ==
  {[len |-> 0, blank |-> TRUE], [len |-> 3, blank |-> TRUE],
   [len |-> 1, blank |-> FALSE], [len |-> MaxTextLength, blank |-> FALSE],
   [len |-> MaxTextLength + 1, blank |-> FALSE],
   [len |-> MaxTextLength + 1, blank |-> TRUE]}
UploadNames ==
  {<<>>, <<"s", ".", "t", "x", "t">>, <<"S", ".", "T", "X", "T">>,
   <<"s", ".", "m", "d">>, <<"s", ".", "m", "p", "4">>, <<"t", "x", "t">>,
   <<".", "t", "x", "t">>}
\* What a stage function does when called: returns the path of the file it
\* wrote, or raises Exception(msg).
StageOk == [kind |-> "ok"]
StageRaise(msg) == [kind |-> "raise", msg |-> msg]
StageOutcomes ==
  {StageOk, StageRaise(<<"Failed to generate: ", "quota exceeded">>),
   StageRaise(<<"API key not found">>)}
\* What a client can put after /delete_file/, as the segments pathlib makes
\* of it (a name with a backslash is one URL segment, and several path
\* segments on Windows).
DeleteNames(files) ==
  {<<"..">>, <<".">>, <<"missing.txt">>, <<"..", "api_server.py">>}
    \cup {<<f[Len(f)]>> : f \in files}
    \cup {<<"..", "output", f[Len(f)]>> : f \in files}

\* ------------------------------------------------------------- exceptions
HTTPException(code, detail) ==
  [type |-> "HTTPException", status_code |-> code, detail |-> detail]
PyException(msg) == [type |-> "Exception", msg |-> msg]

\* str(e): an Exception's message; Starlette prints an HTTPException as
\* "<status_code>: <detail>".
str_exc(e) ==
  IF e.type = "HTTPException"
    THEN <<ToString(e.status_code) \o ": ">> \o e.detail
    ELSE e.msg

Returned(body) == [kind |-> "return", body |-> body]
Raised(e) == [kind |-> "raise", exc |-> e]

\* A variant of APIResponse whose data field is left out.
APIResponse_without_data(status, message, data) ==
  [status |-> status, message |-> message]

\* class APIResponse: status, message, data (None by default).
NoData == [kind |-> "None"]
APIResponse(status, message, data) ==
  [status |-> status, message |-> message, data |-> data]

\* A variant of error_detail that reports the failure without its message.
error_detail_generic(prefix, e) == prefix

\* The detail of the HTTPException an endpoint's `except Exception as e` raises.
error_detail(prefix, e) == prefix \o str_exc(e)

\* `except Exception as e: raise HTTPException(status_code=500, ...)` around an
\* endpoint's body: every exception the body raised, an HTTPException
\* included, is replaced.
try_except(outcome, prefix) ==
  IF outcome.kind = "raise"
    THEN Raised(HTTPException(500, error_detail(prefix, outcome.exc)))
    ELSE outcome

\* @app.exception_handler(HTTPException)
http_exception_handler(exc) ==
  [status_code |-> exc.status_code, via |-> "http_exception_handler",
   body |-> [status |-> "error", message |-> exc.detail, timestamp |-> "now"]]

\* @app.exception_handler(Exception)
general_exception_handler(exc) ==
  [status_code |-> 500, via |-> "general_exception_handler",
   body |-> [status |-> "error", message |-> <<"Internal server error">>,
             detail |-> str_exc(exc), timestamp |-> "now"]]

\* What FastAPI sends for the outcome of an endpoint.
dispatch(outcome) ==
  IF outcome.kind = "return"
    THEN [status_code |-> 200, via |-> "endpoint", body |-> outcome.body]
  ELSE IF outcome.exc.type = "HTTPException"
    THEN http_exception_handler(outcome.exc)
  ELSE general_exception_handler(outcome.exc)

\* ------------------------------------------------------------- file names
RECURSIVE Join(_)
\* The string of a sequence of characters.
Join(cs) == IF cs = <<>> THEN "" ELSE Head(cs) \o Join(Tail(cs))

\* Position of the last c in cs, 0 if there is none (str.rfind).
RFind(cs, c) ==
  LET at == {i \in DOMAIN cs : cs[i] = c} IN
  IF at = {} THEN 0 ELSE CHOOSE i \in at : \A j \in at : j <= i

\* Path(filename).name: what follows the last separator.
path_name(cs) == SubSeq(cs, RFind(cs, "/") + 1, Len(cs))

\* Path(filename).suffix: from the last dot of the name, unless that dot is
\* the name's first or last character.
path_suffix(cs) ==
  LET name == path_name(cs)
      i == RFind(name, ".")
  IN IF 1 < i /\ i < Len(name) THEN SubSeq(name, i, Len(name)) ELSE <<>>

\* filename.split('.')[-1]
split_last(cs) == SubSeq(cs, RFind(cs, ".") + 1, Len(cs))

allowed_extensions == {<<".", "t", "x", "t">>, <<".", "m", "d">>}

\* `file_extension in allowed_extensions`, file_extension being the
\* lower-cased suffix.
extension_allowed(filename) == Lower(path_suffix(filename)) \in allowed_extensions

\* generate_unique_filename, and the names the stage functions give their
\* files: a prefix, a part made of the time (and of a uuid for uploads), the
\* extension.  Requests are taken to arrive at different times, so the n-th
\* file created has a part of its own.
unique_filename(prefix, n, extension) ==
  prefix \o "_" \o ToString(n) \o "." \o extension

RECURSIVE Resolve(_)
\* Path.resolve() on a path given by its segments: "." is dropped and ".."
\* drops the segment before it (no symbolic links).
Resolve(path) ==
  IF path = <<>> THEN <<>>
  ELSE LET init == Resolve(SubSeq(path, 1, Len(path) - 1))
           seg == path[Len(path)]
       IN IF seg = "." THEN init
          ELSE IF seg = ".." THEN
            (IF init = <<>> THEN <<>> ELSE SubSeq(init, 1, Len(init) - 1))
          ELSE Append(init, seg)

\* A variant of is_relative_to that accepts every path.
is_relative_to_anything(path, dir) == TRUE

\* Path.is_relative_to
is_relative_to(path, dir) ==
  Len(path) >= Len(dir) /\ SubSeq(path, 1, Len(dir)) = dir

\* -------------------------------------------------------------- endpoints
\* Each endpoint gives: out, what leaves the endpoint function; files, the
\* files that exist afterwards; created, how many it and its stage function
\* created; called, whether the stage function was invoked.  An upload that
\* cannot be written (ioFault) and a stage function that raises are the
\* failures of the world the endpoints meet.

\* `not request.topic.strip()`
topic_empty(topic) == Strip(topic) = <<>>

\* `len(request.text) > 5000`
text_too_long_exclusive(text) == text.len >= MaxTextLength
text_too_long(text) == text.len > MaxTextLength


generate_script_endpoint(files, n, topic, stage) ==
  LET prefix == <<"Failed to generate script: ">>
      name == unique_filename("script", n + 1, "txt")
  IN IF topic_empty(topic)
       THEN [out |-> try_except(Raised(HTTPException(400, <<"Topic cannot be empty">>)), prefix),
             files |-> files, created |-> 0, called |-> FALSE]
     ELSE IF stage.kind = "raise"
       THEN [out |-> try_except(Raised(PyException(stage.msg)), prefix),
             files |-> files, created |-> 0, called |-> TRUE]
     ELSE [out |-> Returned(APIResponse("success", <<"Script generated successfully">>,
                     [script_path |-> "/output/" \o name, script_content |-> "content",
                      filename |-> name])),
           files |-> files \cup {Append(OUTPUT_DIR, name)}, created |-> 1,
           called |-> TRUE]

generate_voice_endpoint(files, n, text, stage) ==
  LET prefix == <<"Failed to generate voice: ">>
      name == unique_filename("voice", n + 1, "mp3")
  IN IF text.blank
       THEN [out |-> try_except(Raised(HTTPException(400, <<"Text cannot be empty">>)), prefix),
             files |-> files, created |-> 0, called |-> FALSE]
     ELSE IF text_too_long(text)
       THEN [out |-> try_except(Raised(HTTPException(400,
                        <<"Text too long (max 5000 characters)">>)), prefix),
             files |-> files, created |-> 0, called |-> FALSE]
     ELSE IF stage.kind = "raise"
       THEN [out |-> try_except(Raised(PyException(stage.msg)), prefix),
             files |-> files, created |-> 0, called |-> TRUE]
     ELSE [out |-> Returned(APIResponse("success", <<"Voice generated successfully">>,
                     [voice_path |-> "/output/" \o name, filename |-> name,
                      duration |-> "Unknown"])),
           files |-> files \cup {Append(OUTPUT_DIR, name)}, created |-> 1,
           called |-> TRUE]

\* A variant of validate_upload that leaves the extension unchecked.
validate_upload_name_only(filename) ==
  IF filename = <<>> THEN HTTPException(400, <<"No file provided">>) ELSE NoData

\* The validation create_video_endpoint and upload_script_endpoint share:
\* the exception it raises, or NoData when the file passes.
validate_upload(filename) ==
  IF filename = <<>> THEN HTTPException(400, <<"No file provided">>)
  ELSE IF ~extension_allowed(filename)
    THEN HTTPException(400, <<"Invalid file type. Allowed: ", ".txt, .md">>)
  ELSE NoData

create_video_endpoint(files, n, filename, ioFault, stage) ==
  LET prefix == <<"Failed to create video: ">>
      invalid == validate_upload(filename)
      upload == unique_filename("upload", n + 1, Join(split_last(filename)))
      uploaded == files \cup {Append(OUTPUT_DIR, upload)}
      name == unique_filename("video", n + 2, "mp4")
  IN IF invalid # NoData
       THEN [out |-> try_except(Raised(invalid), prefix),
             files |-> files, created |-> 0, called |-> FALSE]
     ELSE IF ioFault
       THEN [out |-> try_except(Raised(PyException(<<"[Errno 28] No space left on device">>)), prefix),
             files |-> files, created |-> 0, called |-> FALSE]
     ELSE IF stage.kind = "raise"
       THEN [out |-> try_except(Raised(PyException(stage.msg)), prefix),
             files |-> uploaded, created |-> 1, called |-> TRUE]
     ELSE [out |-> Returned(APIResponse("success", <<"Video created successfully">>,
                     [video_path |-> "/output/" \o name, filename |-> name,
                      size |-> "MB", duration |-> "Unknown"])),
           files |-> uploaded \cup {Append(OUTPUT_DIR, name)}, created |-> 2,
           called |-> TRUE]

upload_script_endpoint(files, n, filename, ioFault) ==
  LET prefix == <<"Failed to upload script: ">>
      invalid == validate_upload(filename)
      upload == unique_filename("upload", n + 1, Join(split_last(filename)))
  IN IF invalid # NoData
       THEN [out |-> try_except(Raised(invalid), prefix),
             files |-> files, created |-> 0, called |-> FALSE]
     ELSE IF ioFault
       THEN [out |-> try_except(Raised(PyException(<<"[Errno 28] No space left on device">>)), prefix),
             files |-> files, created |-> 0, called |-> FALSE]
     ELSE [out |-> Returned(APIResponse("success", <<"Script uploaded successfully">>,
                     [script_path |-> "/output/" \o upload, filename |-> upload])),
           files |-> files \cup {Append(OUTPUT_DIR, upload)}, created |-> 1,
           called |-> FALSE]

list_outputs(files, ioFault) ==
  LET prefix == <<"Failed to list outputs: ">>
      names == {f[Len(f)] : f \in {g \in files : SubSeq(g, 1, Len(g) - 1) = OUTPUT_DIR}}
  IN IF ioFault
       THEN [out |-> try_except(Raised(PyException(<<"[Errno 13] Permission denied">>)), prefix),
             files |-> files, created |-> 0, called |-> FALSE]
     ELSE [out |-> Returned(APIResponse("success",
                     <<"Found ", ToString(Cardinality(names)), " files">>,
                     [files |-> names])),
           files |-> files, created |-> 0, called |-> FALSE]

delete_file(files, filename) ==
  LET prefix == <<"Failed to delete file: ">>
      file_path == OUTPUT_DIR \o filename
      resolved == Resolve(file_path)
  IN IF ~is_relative_to(resolved, Resolve(OUTPUT_DIR))
       THEN [out |-> try_except(Raised(HTTPException(400, <<"Invalid file path">>)), prefix),
             files |-> files, created |-> 0, called |-> FALSE]
     ELSE IF resolved \notin files /\ resolved \notin Dirs
       THEN [out |-> try_except(Raised(HTTPException(404, <<"File not found">>)), prefix),
             files |-> files, created |-> 0, called |-> FALSE]
     ELSE IF resolved \in Dirs
       THEN [out |-> try_except(Raised(PyException(<<"[Errno 21] Is a directory">>)), prefix),
             files |-> files, created |-> 0, called |-> FALSE]
     ELSE [out |-> Returned(APIResponse("success",
                     <<"File ", filename[Len(filename)], " deleted successfully">>,
                     NoData)),
           files |-> files \ {resolved}, created |-> 0, called |-> FALSE]

\* ------------------------------------------------------------------ actions
Request(endpoint, input, stage) ==
  [endpoint |-> endpoint, input |-> input, stage |-> stage, pre |-> fs,
   called |-> FALSE]

InitApi ==
  /\ fs = {Append(BASE_DIR, "api_server.py")}
  /\ file_seq = 0
  /\ request = Request("none", <<>>, StageOk)
  /\ response = [status_code |-> 0, via |-> "none", body |-> NoData]

\* One request: the endpoint runs, and FastAPI answers with its result or
\* with what the exception handler makes of its exception.
Serve(r, req) ==
  /\ file_seq + r.created <= MaxFiles
  /\ fs' = r.files
  /\ file_seq' = file_seq + r.created
  /\ request' = [req EXCEPT !.called = r.called]
  /\ response' = dispatch(r.out)
  /\ UNCHANGED <<credVars, pipeVars, browserVars>>

GenerateScript(topic, stage) ==
  \E r \in {generate_script_endpoint(fs, file_seq, topic, stage)} :
    Serve(r, Request("generate_script", topic, stage))

GenerateVoice(text, stage) ==
  \E r \in {generate_voice_endpoint(fs, file_seq, text, stage)} :
    Serve(r, Request("generate_voice", text, stage))

CreateVideo(filename, ioFault, stage) ==
  \E r \in {create_video_endpoint(fs, file_seq, filename, ioFault, stage)} :
    Serve(r, Request("create_video", filename, stage))

UploadScript(filename, ioFault) ==
  \E r \in {upload_script_endpoint(fs, file_seq, filename, ioFault)} :
    Serve(r, Request("upload_script", filename, StageOk))

ListOutputs(ioFault) ==
  \E r \in {list_outputs(fs, ioFault)} :
    Serve(r, Request("list_outputs", <<>>, StageOk))

DeleteFile(filename) ==
  \E r \in {delete_file(fs, filename)} :
    Serve(r, Request("delete_file", filename, StageOk))

NextApi ==
  \/ \E topic \in Topics, stage \in StageOutcomes : GenerateScript(topic, stage)
  \/ \E text \in Texts, stage \in StageOutcomes : GenerateVoice(text, stage)
  \/ \E filename \in UploadNames, ioFault \in BOOLEAN, stage \in StageOutcomes :
        CreateVideo(filename, ioFault, stage)
  \/ \E filename \in UploadNames, ioFault \in BOOLEAN : UploadScript(filename, ioFault)
  \/ \E ioFault \in BOOLEAN : ListOutputs(ioFault)
  \/ \E filename \in DeleteNames(fs) : DeleteFile(filename)

\* ================================= pipeline.py and the stage functions
\* `max_attempts = 60` of create_video's poll loop.
max_attempts == 60

\* Values the stage functions take and return, besides None: a path (its
\* segments) and a string.
PathOf(p) == [kind |-> "path", path |-> p]
StrOf(s) == [kind |-> "str", str |-> s]

Return(v) == [kind |-> "return", value |-> v]
Throw(type, msg) == [kind |-> "raise", type |-> type, msg |-> msg]

\* The parameters of the run functions, in the order of their signatures,
\* and their default values.
Signature(fn) ==
  CASE fn = "script_gen.run" -> <<"theme">>
    [] fn = "voice_gen.run" -> <<"script_file">>
    [] fn = "animation_gen.run" ->
         <<"prompt_text", "duration", "prompt_image", "ratio", "model">>
    [] fn = "video_edit.run" -> <<"script_file", "style", "resolution">>
    [] fn = "upload_youtube.run" -> <<"final_video">>

Default(name) ==
  CASE name = "theme" -> StrOf("comedy")
    [] name = "duration" -> StrOf("5")
    [] name = "ratio" -> StrOf("1280:720")
    [] name = "model" -> StrOf("gen4_turbo")
    [] name = "style" -> StrOf("modern")
    [] name = "resolution" -> StrOf("1080p")
    [] OTHER -> None

\* Python's binding of positional arguments: the i-th argument is the value
\* of the i-th parameter, whatever the caller calls it.
Bind(fn, args) ==
  LET sig == Signature(fn) IN
  [name \in {sig[i] : i \in DOMAIN sig} |->
     LET i == CHOOSE j \in DOMAIN sig : sig[j] = name IN
     IF i <= Len(args) THEN args[i] ELSE Default(name)]

\* The external requests of one stage function call: how many requests of
\* each kind were issued, whether one failed, whether one was issued after
\* a failed one.
NoExt ==
  [create |-> 0, status |-> 0, download |-> 0, failed |-> FALSE, after |-> FALSE]
Requested(ext, kind, ok) ==
  [ext EXCEPT ![kind] = @ + 1, !.after = @ \/ ext.failed, !.failed = @ \/ ~ok]

NoFrame == [fn |-> "none"]
NoCall == [fn |-> "none"]
Call(fn, args, caller, files) ==
  [fn |-> fn, params |-> Bind(fn, args), caller |-> caller, pc |-> "called",
   attempts |-> 0, completed |-> FALSE, script_path |-> None, pre |-> files,
   ext |-> NoExt]

\* The calls of pipeline.main, in order.
Steps ==
  <<"script_gen.run", "voice_gen.run", "animation_gen.run", "video_edit.run",
    "upload_youtube.run">>

InitPipe ==
  /\ main = [pc |-> "idle", step |-> 0, script_file |-> None, audio_file |-> None,
             video_file |-> None, final_video |-> None, calls |-> <<>>,
             returned |-> 0]
  /\ frame = NoFrame
  /\ ret = NoCall

\* The arguments main passes at its k-th call.
main_args(m, k) ==
  CASE k = 1 -> <<StrOf("motivation")>>
    [] k = 2 -> <<m.script_file>>
    [] k = 3 -> <<m.script_file>>
    [] k = 4 -> <<m.video_file, m.audio_file>>
    [] k = 5 -> <<m.final_video>>

\* main after its k-th call finished: the value is assigned and the next
\* statement is reached, or the exception leaves main (it has no handler).
main_returned(m, out) ==
  IF out.kind = "raise" THEN [m EXCEPT !.pc = "raised"]
  ELSE LET k == m.step
           n == [m EXCEPT !.returned = @ + 1,
                          !.pc = IF k = 5 THEN "done" ELSE "ready"]
       IN CASE k = 1 -> [n EXCEPT !.script_file = out.value]
            [] k = 2 -> [n EXCEPT !.audio_file = out.value]
            [] k = 3 -> [n EXCEPT !.video_file = out.value]
            [] k = 4 -> [n EXCEPT !.final_video = out.value]
            [] k = 5 -> n

\* ------------------------------------------------------ the stage functions
\* What the world does to one call: whether the API key is configured, the
\* generation request succeeds, the input file can be read, the output file
\* can be written.
Worlds == [has_key : BOOLEAN, api_ok : BOOLEAN, read_ok : BOOLEAN, write_ok : BOOLEAN]

\* The URLs the remote services hand out.
Urls == {"https://cdn.example/video.mp4"}

\* `if isinstance(script_file, str): script_file = Path(script_file)`
as_path(v) == IF v.kind = "str" THEN PathOf(<<v.str>>) ELSE v

\* Path.exists()
path_exists(v, files) == v.kind = "path" /\ v.path \in files

\* The text of v, formatted into a file name, contains a path separator.
has_separator(v) ==
  \/ v.kind = "path" /\ Len(v.path) > 1
  \/ v.kind = "str" /\ v.str \in Urls

\* What a stage function call gives: out, how it ended; files, the files
\* afterwards; created, the number of files it created under a new name; ext,
\* its external requests.
Res(out, files, created, ext) ==
  [out |-> out, files |-> files, created |-> created, ext |-> ext]

\* script_gen.run(theme) = generate_script(theme, "medium", "entertaining")
generate_script(files, n, w) ==
  LET path == Append(OUTPUT_DIR, unique_filename("script", n + 1, "txt"))
      prefix == <<"Failed to generate script: ">>
  IN IF ~w.has_key
       THEN Res(Throw("ValueError", <<"OpenAI API key not found.">>), files, 0, NoExt)
     ELSE IF ~w.api_ok
       THEN Res(Throw("Exception", prefix \o <<"openai error">>), files, 0,
                Requested(NoExt, "create", FALSE))
     ELSE IF ~w.write_ok
       THEN Res(Throw("Exception", prefix \o <<"[Errno 28] No space left on device">>),
                files, 0, Requested(NoExt, "create", TRUE))
     ELSE Res(Return(PathOf(path)), files \cup {path}, 1,
              Requested(NoExt, "create", TRUE))

\* generate_voice(text)
generate_voice(files, n, w) ==
  LET path == Append(OUTPUT_DIR, unique_filename("voice", n + 1, "mp3"))
      prefix == <<"Failed to generate voice: ">>
  IN IF ~w.has_key
       THEN Res(Throw("ValueError", <<"ElevenLabs API key not found.">>), files, 0, NoExt)
     ELSE IF ~w.api_ok
       THEN Res(Throw("Exception", prefix \o <<"elevenlabs error">>), files, 0,
                Requested(NoExt, "create", FALSE))
     ELSE IF ~w.write_ok
       THEN Res(Throw("Exception", prefix \o <<"[Errno 28] No space left on device">>),
                files, 0, Requested(NoExt, "create", TRUE))
     ELSE Res(Return(PathOf(path)), files \cup {path}, 1,
              Requested(NoExt, "create", TRUE))

\* voice_gen.run(script_file) = generate_voice_from_file(Path(script_file))
voice_gen_run(files, n, params, w) ==
  LET script_file == as_path(params.script_file) IN
  IF script_file = None
    THEN Res(Throw("AttributeError", <<"'NoneType' object has no attribute 'exists'">>),
             files, 0, NoExt)
  ELSE IF ~path_exists(script_file, files)
    THEN Res(Throw("FileNotFoundError", <<"Script file not found: ">>), files, 0, NoExt)
  ELSE IF ~w.read_ok
    THEN Res(Throw("Exception", <<"Failed to read script file: ", "[Errno 13] Permission denied">>),
             files, 0, NoExt)
  ELSE generate_voice(files, n, w)

\* How wait_for_task_output ends: with the output, with TaskFailedError, or
\* with another exception of the client.
Waits == {"output", "task_failed", "error"}

\* animation_gen.run(prompt_text, ...)
animation_gen_run(files, params, w, wait) ==
  LET created == Requested(NoExt, "create", TRUE) IN
  IF ~w.has_key
    THEN Res(Throw("RunwayMLError", <<"The api_key client option must be set">>),
             files, 0, NoExt)
  ELSE IF ~w.api_ok
    THEN Res(Throw("APIError", <<"runway error">>), files, 0,
             Requested(NoExt, "create", FALSE))
  ELSE IF wait = "output"
    THEN Res(Return(StrOf(CHOOSE u \in Urls : TRUE)), files, 0,
             Requested(created, "status", TRUE))
  ELSE IF wait = "task_failed"
    THEN Res(Return(None), files, 0, Requested(created, "status", FALSE))
  ELSE Res(Throw("TaskTimeoutError", <<"runway timeout">>), files, 0,
           Requested(created, "status", FALSE))

\* The answers to the POST that creates the video job.
CreateResponses == {"id", "not_ok", "no_id", "error"}

default_script == Append(OUTPUT_DIR, "default_script.txt")

\* A variant of create_video_start that sends the create request without
\* looking at the key first (the request is refused).
create_video_start_key_late(files1, script_path, w, created) ==
  [next |-> "done", script_path |-> script_path,
   res |-> IF ~path_exists(script_path, files1)
             THEN Res(Throw("FileNotFoundError", <<"Script file not found: ">>),
                      files1, 0, NoExt)
           ELSE Res(Throw("Exception", <<"Failed to create video: ", "401">>),
                    files1, 0, Requested(NoExt, "create", FALSE))]

\* create_video(script_path, style, resolution) up to the answer to its
\* create request: the call ends (done) or goes on to poll.
create_video_start(files1, script_path, w, created) ==
  LET prefix == <<"Failed to create video: ">>
      done(out, fl, ext) ==
        [next |-> "done", res |-> Res(out, fl, 0, ext), script_path |-> script_path]
  IN IF ~w.has_key
       THEN done(Throw("ValueError", <<"Pika Labs API key not found.">>), files1, NoExt)
     ELSE IF ~path_exists(script_path, files1)
       THEN done(Throw("FileNotFoundError", <<"Script file not found: ">>), files1, NoExt)
     ELSE IF ~w.read_ok
       THEN done(Throw("Exception", <<"Failed to read script file: ", "[Errno 13] Permission denied">>),
                 files1, NoExt)
     ELSE IF created = "id"
       THEN [next |-> "poll", res |-> Res(None, files1, 0, Requested(NoExt, "create", TRUE)),
             script_path |-> script_path]
     ELSE done(Throw("Exception",
                 prefix \o (CASE created = "not_ok" -> <<"Failed to create video job: ">>
                              [] created = "no_id" -> <<"Invalid response from Pika Labs: ">>
                              [] OTHER -> <<"connection error">>)),
               files1, Requested(NoExt, "create", FALSE))

\* video_edit.run(script_file, style, resolution): it writes the default
\* script when it is given none, then calls create_video.
video_edit_start(files, params, w, created) ==
  LET use_default == params.script_file = None
      script_path == IF use_default THEN PathOf(default_script)
                     ELSE as_path(params.script_file)
      files1 == IF use_default THEN files \cup {default_script} ELSE files
  IN IF use_default /\ default_script \notin files /\ ~w.write_ok
       THEN [next |-> "done", script_path |-> script_path,
             res |-> Res(Throw("OSError", <<"[Errno 28] No space left on device">>),
                         files, 0, NoExt)]
     ELSE create_video_start(files1, script_path, w, created)

\* The answers to a status request.
\* The answers to a status request; requests.get is called without a timeout,
\* so there may be none.
StatusResponses ==
  {"not_ok", "completed_url", "completed_no_url", "failed", "pending", "error",
   "no_answer"}

\* A variant of poll_again that allows one more iteration.
poll_again_inclusive(attempts) == attempts <= max_attempts

\* `while attempts < max_attempts`
poll_again(attempts) == attempts < max_attempts

\* A variant of after_failed_status that polls again.
after_failed_status_retry(prefix, status) == [next |-> "poll", out |-> None]

\* A status request that is not answered with ok (or not at all) ends the call.
after_failed_status(prefix, status) ==
  [next |-> "done",
   out |-> Throw("Exception",
             prefix \o (IF status = "not_ok" THEN <<"Failed to check video status: ">>
                        ELSE <<"connection error">>))]

\* A variant of after_completed that goes on to the download without a URL.
after_completed_any(prefix, has_url) == [next |-> "download", out |-> None]

\* `video_url = status_data.get("video")`: with a URL the loop is left for
\* the download, without one the call ends.
after_completed(prefix, has_url) ==
  IF has_url THEN [next |-> "download", out |-> None]
  ELSE [next |-> "done",
        out |-> Throw("Exception", prefix \o <<"Video completed but no URL provided">>)]

\* One iteration of the poll loop of create_video.
video_poll(f, status) ==
  LET prefix == <<"Failed to create video: ">>
      ok == status \notin {"not_ok", "error", "no_answer"}
      ext == Requested(f.ext, "status", ok)
  IN CASE status \in {"not_ok", "error"} ->
            [next |-> after_failed_status(prefix, status).next,
             out |-> after_failed_status(prefix, status).out, ext |-> ext,
             attempts |-> f.attempts, completed |-> FALSE]
       [] status \in {"completed_url", "completed_no_url"} ->
            [next |-> after_completed(prefix, status = "completed_url").next,
             out |-> after_completed(prefix, status = "completed_url").out,
             ext |-> ext, attempts |-> f.attempts,
             completed |-> (status = "completed_url")]
       [] status = "failed" ->
            [next |-> "done",
             out |-> Throw("Exception", prefix \o <<"Video generation failed">>),
             ext |-> ext, attempts |-> f.attempts, completed |-> FALSE]
       [] status = "pending" ->
            [next |-> "poll", out |-> None, ext |-> ext,
             attempts |-> f.attempts + 1, completed |-> FALSE]
       [] status = "no_answer" ->
            [next |-> "blocked", out |-> None, ext |-> ext,
             attempts |-> f.attempts, completed |-> FALSE]

\* `if not video_url: raise Exception("Video generation timed out")`
video_timed_out ==
  Throw("Exception", <<"Failed to create video: ">> \o <<"Video generation timed out">>)

\* The download of the finished video and the writing of the file, whose
\* name is made of the script's stem, the style and the resolution.
video_download(files, n, f, get_ok, write_ok) ==
  LET path == Append(OUTPUT_DIR, unique_filename("video", n + 1, "mp4"))
      prefix == <<"Failed to create video: ">>
      ext == Requested(f.ext, "download", get_ok)
  IN IF ~get_ok
       THEN Res(Throw("Exception", prefix \o <<"Failed to download video: ">>), files, 0, ext)
     ELSE IF has_separator(f.params.style) \/ has_separator(f.params.resolution)
       THEN Res(Throw("Exception", prefix \o <<"[Errno 2] No such file or directory">>),
                files, 0, ext)
     ELSE IF ~write_ok
       THEN Res(Throw("Exception", prefix \o <<"[Errno 28] No space left on device">>),
                files, 0, ext)
     ELSE Res(Return(PathOf(path)), files \cup {path}, 1, ext)

\* ------------------------------------------------------------------ actions
\* The call in progress ends: its result is recorded and, when main made
\* the call, main goes on or is left by the exception.
Finish(r) ==
  /\ frame' = NoFrame
  /\ ret' = [fn |-> frame.fn, params |-> frame.params, caller |-> frame.caller,
             pre |-> frame.pre, out |-> r.out, ext |-> r.ext,
             completed |-> frame.completed, attempts |-> frame.attempts]
  /\ fs' = r.files
  /\ file_seq' = file_seq + r.created
  /\ main' = IF frame.caller = "main" THEN main_returned(main, r.out) ELSE main
  /\ UNCHANGED <<request, response, credVars, browserVars>>

\* `python pipeline.py`: main is entered.
PipelineMain ==
  /\ main.pc = "idle" /\ frame = NoFrame
  /\ main' = [main EXCEPT !.pc = "ready"]
  /\ UNCHANGED <<frame, ret, apiVars, credVars, browserVars>>

\* main makes its next call.
MainCall ==
  /\ main.pc = "ready" /\ frame = NoFrame
  /\ \E k \in {main.step + 1} :
       /\ main' = [main EXCEPT !.pc = "calling", !.step = k,
                               !.calls = Append(@, Steps[k])]
       /\ frame' = Call(Steps[k], main_args(main, k), "main", fs)
  /\ UNCHANGED <<ret, apiVars, credVars, browserVars>>

\* The arguments of a stage function called on its own.
DirectArgs(fn) ==
  CASE fn = "script_gen.run" -> {<<>>, <<StrOf("motivation")>>}
    [] fn = "voice_gen.run" ->
         {<<PathOf(Append(BASE_DIR, "api_server.py"))>>,
          <<PathOf(Append(OUTPUT_DIR, "missing.txt"))>>, <<StrOf("script.txt")>>}
    [] fn = "animation_gen.run" -> {<<StrOf("a prompt")>>}
    [] fn = "video_edit.run" ->
         {<<>>, <<PathOf(Append(BASE_DIR, "api_server.py"))>>,
          <<PathOf(Append(BASE_DIR, "api_server.py")), StrOf("minimal"), StrOf("720p")>>,
          <<PathOf(Append(OUTPUT_DIR, "missing.txt"))>>}
    [] fn = "upload_youtube.run" -> {<<PathOf(Append(OUTPUT_DIR, "video.mp4"))>>}

\* A stage function is called on its own (as the module's legacy entry).
DirectCall(fn, args) ==
  /\ main.pc = "idle" /\ frame = NoFrame
  /\ main' = [main EXCEPT !.pc = "none"]
  /\ frame' = Call(fn, args, "direct", fs)
  /\ UNCHANGED <<ret, apiVars, credVars, browserVars>>

ScriptGenRun(w) ==
  /\ frame.fn = "script_gen.run"
  /\ \E r \in {generate_script(fs, file_seq, w)} : Finish(r)

VoiceGenRun(w) ==
  /\ frame.fn = "voice_gen.run"
  /\ \E r \in {voice_gen_run(fs, file_seq, frame.params, w)} : Finish(r)

AnimationGenRun(w, wait) ==
  /\ frame.fn = "animation_gen.run"
  /\ \E r \in {animation_gen_run(fs, frame.params, w, wait)} : Finish(r)

Continue(f, files) ==
  /\ frame' = f
  /\ fs' = files
  /\ UNCHANGED <<main, ret, file_seq, request, response, credVars, browserVars>>

VideoEditRun(w, created) ==
  /\ frame.fn = "video_edit.run" /\ frame.pc = "called"
  /\ \E r \in {video_edit_start(fs, frame.params, w, created)} :
       IF r.next = "done" THEN Finish(r.res)
       ELSE Continue([frame EXCEPT !.pc = "poll", !.ext = r.res.ext,
                                   !.script_path = r.script_path], r.res.files)

VideoPoll(status) ==
  /\ frame.fn = "video_edit.run" /\ frame.pc = "poll"
  /\ poll_again(frame.attempts)
  /\ \E r \in {video_poll(frame, status)} :
       IF r.next = "done" THEN Finish(Res(r.out, fs, 0, r.ext))
       ELSE Continue([frame EXCEPT !.pc = r.next, !.ext = r.ext,
                                   !.attempts = r.attempts,
                                   !.completed = r.completed], fs)

VideoTimeout ==
  /\ frame.fn = "video_edit.run" /\ frame.pc = "poll"
  /\ ~poll_again(frame.attempts)
  /\ Finish(Res(video_timed_out, fs, 0, frame.ext))

VideoDownload(get_ok, write_ok) ==
  /\ frame.fn = "video_edit.run" /\ frame.pc = "download"
  /\ \E r \in {video_download(fs, file_seq, frame, get_ok, write_ok)} : Finish(r)

\* upload_youtube.run(final_video): the upload is made and the call returns.
UploadYoutubeRun ==
  /\ frame.fn = "upload_youtube.run"
  /\ Finish(Res(Return(None), fs, 0, NoExt))

NextPipe ==
  \/ PipelineMain
  \/ MainCall
  \/ \E fn \in {Steps[k] : k \in DOMAIN Steps} :
       \E args \in DirectArgs(fn) : DirectCall(fn, args)
  \/ \E w \in Worlds : ScriptGenRun(w)
  \/ \E w \in Worlds : VoiceGenRun(w)
  \/ \E w \in Worlds, wait \in Waits : AnimationGenRun(w, wait)
  \/ \E w \in Worlds, created \in CreateResponses : VideoEditRun(w, created)
  \/ \E status \in StatusResponses : VideoPoll(status)
  \/ VideoTimeout
  \/ \E get_ok \in BOOLEAN, write_ok \in BOOLEAN : VideoDownload(get_ok, write_ok)
  \/ UploadYoutubeRun

\* ============================ chatgpt_login.py, run_chatgpt_test.py: browser runs
\* Number of runs of the browser scripts in one behaviour.
MaxRuns == 2

BrowserFunctions == {"run_login_test", "test_chatgpt"}

\* A variant of body_order in which run_login_test resolves the credentials
\* before it starts the browser.
body_order_credentials_first(fn) ==
  IF fn = "run_login_test"
    THEN <<"get_credentials", "setup_driver", "login_to_chatgpt">>
    ELSE <<"setup_driver", "open_page">>

\* The calls in the try block of the function, in the order of its statements.
body_order(fn) ==
  IF fn = "run_login_test"
    THEN <<"setup_driver", "get_credentials", "login_to_chatgpt">>
    ELSE <<"setup_driver", "open_page">>

\* How setup_driver ends: no WebDriver is created (the driver manager or
\* webdriver.Chrome raises), the WebDriver is created and then execute_script
\* or maximize_window raises, or the WebDriver is returned.
SetupOutcomes == {"no_driver", "config_fails", "ok"}

\* setup_driver: created, whether a WebDriver was created; assigned, whether
\* the variable the function's finally block tests holds it (self.driver is
\* set as soon as the WebDriver exists, the local `driver` of test_chatgpt
\* only when setup_driver returns); raised, whether it raised.
setup_driver(fn, outcome) ==
  CASE outcome = "no_driver" -> [created |-> 0, assigned |-> FALSE, raised |-> TRUE]
    [] outcome = "config_fails" ->
         [created |-> 1, assigned |-> (fn = "run_login_test"), raised |-> TRUE]
    [] outcome = "ok" -> [created |-> 1, assigned |-> TRUE, raised |-> FALSE]

NoSession ==
  [fn |-> "none", pc |-> "idle", idx |-> 0, created |-> 0, driver |-> FALSE,
   quits |-> 0, log |-> <<>>, result |-> None, runs |-> 0, history |-> <<>>,
   login |-> None]

InitBrowser == session = NoSession

\* The script is started: a new handler, no driver yet.
BrowserStart(fn) ==
  /\ session.pc \in {"idle", "returned"}
  /\ session.runs < MaxRuns
  /\ session' = [NoSession EXCEPT !.fn = fn, !.pc = "body", !.idx = 1,
                                  !.runs = session.runs,
                                  !.history = session.history]
  /\ UNCHANGED <<credVars, apiVars, pipeVars>>

\* The next call of the try block is c.
AtCall(c) ==
  /\ session.pc = "body"
  /\ body_order(session.fn)[session.idx] = c

\* After a call of the try block: `except Exception` makes the function
\* return False, any other exception leaves it; both by way of finally.
Proceed(s, c, raised, result) ==
  LET t == [s EXCEPT !.log = Append(@, c)] IN
  IF raised \/ s.idx = Len(body_order(s.fn))
    THEN [t EXCEPT !.pc = "finally", !.result = result]
    ELSE [t EXCEPT !.idx = @ + 1]

SetupDriver(outcome) ==
  /\ AtCall("setup_driver")
  /\ \E r \in {setup_driver(session.fn, outcome)} :
       session' = Proceed([session EXCEPT !.created = @ + r.created,
                                          !.driver = r.assigned],
                          "setup_driver", r.raised, Bool(FALSE))
  /\ UNCHANGED <<credVars, apiVars, pipeVars>>

\* get_credentials returns the pair, raises an Exception (a file error, EOF
\* on input), or the user interrupts the prompt.
CredentialOutcomes == {"tuple", "exception", "interrupt"}

ResolveCredentials(outcome) ==
  /\ AtCall("get_credentials")
  /\ session' = Proceed(session, "get_credentials", outcome # "tuple",
                        IF outcome = "interrupt" THEN Raise("KeyboardInterrupt")
                        ELSE Bool(FALSE))
  /\ UNCHANGED <<credVars, apiVars, pipeVars>>

\* A variant of login_steps that types the password on the first page.
login_steps_password_early ==
  <<"open_login_page", "wait_email", "type_email", "wait_password",
    "type_password", "wait_continue", "click_continue", "wait_continue_again",
    "click_continue_again", "wait_outcome">>

\* The browser steps of login_to_chatgpt, in the order of its statements.
login_steps ==
  <<"open_login_page", "wait_email", "type_email", "wait_continue",
    "click_continue", "wait_password", "type_password", "wait_continue_again",
    "click_continue_again", "wait_outcome">>

\* `if "chat.openai.com/c" in driver.current_url: return True else: return False`
login_result(url_chat, error_text) == url_chat

\* login_to_chatgpt when step fail_at raises (0: none does) and the page
\* reached has the chat URL and/or an error text.  The last wait times out
\* when the page has neither.  Every Exception is caught: the function
\* returns False.
login_to_chatgpt(fail_at, url_chat, error_text) ==
  LET at == IF fail_at = 0 /\ ~url_chat /\ ~error_text
              THEN Len(login_steps) ELSE fail_at
  IN [fail_at |-> fail_at, url_chat |-> url_chat, error_text |-> error_text,
      raised |-> at # 0,
      dom |-> IF at = 0 THEN login_steps ELSE SubSeq(login_steps, 1, at - 1),
      ret |-> IF at # 0 THEN FALSE ELSE login_result(url_chat, error_text)]

LoginToChatgpt(fail_at, url_chat, error_text) ==
  /\ AtCall("login_to_chatgpt")
  /\ \E r \in {login_to_chatgpt(fail_at, url_chat, error_text)} :
       session' = Proceed([session EXCEPT !.login = r], "login_to_chatgpt",
                          FALSE, Bool(r.ret))
  /\ UNCHANGED <<credVars, apiVars, pipeVars>>

\* test_chatgpt opens the page: the title is as expected, is not, or the
\* page load raises.
PageOutcomes == {"title_ok", "title_unexpected", "exception"}

OpenPage(outcome) ==
  /\ AtCall("open_page")
  /\ session' = Proceed(session, "open_page", outcome = "exception",
                        Bool(outcome = "title_ok"))
  /\ UNCHANGED <<credVars, apiVars, pipeVars>>

\* finally: `if driver: driver.quit()`, then the function returns.
Cleanup ==
  /\ session.pc = "finally"
  /\ session' = [session EXCEPT
       !.pc = "returned",
       !.quits = IF session.driver THEN @ + 1 ELSE @,
       !.log = IF session.driver THEN Append(@, "quit") ELSE @,
       !.runs = @ + 1,
       !.history = Append(@, [fn |-> session.fn, result |-> session.result])]
  /\ UNCHANGED <<credVars, apiVars, pipeVars>>

NextBrowser ==
  \/ \E fn \in BrowserFunctions : BrowserStart(fn)
  \/ \E outcome \in SetupOutcomes : SetupDriver(outcome)
  \/ \E outcome \in CredentialOutcomes : ResolveCredentials(outcome)
  \/ \E fail_at \in 0..Len(login_steps), url_chat \in BOOLEAN, error_text \in BOOLEAN :
       LoginToChatgpt(fail_at, url_chat, error_text)
  \/ \E outcome \in PageOutcomes : OpenPage(outcome)
  \/ Cleanup

Init == InitCred /\ InitApi /\ InitPipe /\ InitBrowser

NextCred ==
  \/ \E m \in Mgrs, F \in SUBSET KeyFaults : Construct(m, F)
  \/ \E m \in Mgrs, e \in Emails, p \in Passwords, ts \in Timestamps,
        F \in SUBSET SaveFaults : Save(m, e, p, ts, F)
  \/ \E m \in Mgrs, F \in SUBSET LoadFaults : Load(m, F)
  \/ \E m \in Mgrs, F \in SUBSET ClearFaults : Clear(m, F)

SpecCred == Init /\ [][NextCred]_vars

\* The runs of the login program and of its helper scripts: each constructs
\* its manager, resolves the credentials (saving what the user typed when
\* asked to) and may clear the store.
NextLogin ==
  \/ \E m \in Mgrs, F \in SUBSET KeyFaults : Construct(m, F)
  \/ \E m \in Mgrs, F \in SUBSET ClearFaults : Clear(m, F)
  \/ \E m \in Mgrs, ee \in EnvEmails, ep \in EnvPasswords, te \in TypedEmails,
        tp \in TypedPasswords, a \in Answers, ts \in Timestamps,
        F \in GetFaultSets :
        GetCredentials(m, ee, ep, te, tp, a, ts, F)

SpecLogin == Init /\ [][NextLogin]_vars

\* The requests a client sends to the API server.
SpecApi == Init /\ [][NextApi]_vars

\* One run of the pipeline, or of a stage function on its own.
SpecPipe == Init /\ [][NextPipe]_vars

\* The runs of the browser scripts.
SpecBrowser == Init /\ [][NextBrowser]_vars

\* The same run, of a process that is not stopped: it takes its next step
\* whenever it has one.
SpecPipeFair == Init /\ [][NextPipe]_vars /\ WF_vars(NextPipe)


\* ------------------------------------------------- claims: the credential store
\* The credential file can be decrypted with manager m's key.
Loadable(m, file) ==
  file.kind = "b64" /\ file.of.kind = "token" /\ file.of.key = cipher_key[m]

\* C1: a load_credentials that follows a save_credentials(e, p) which returned
\* True on the same manager, with no save_credentials or clear_credentials call
\* in between, and whose own access to the file does not fail, returns a record
\* whose 'email' is e and whose 'password' is p.
C1_SaveLoadRoundTrip ==
  (/\ last.op = "load"
   /\ last.hit = {}
   /\ lastSave.kind = "some"
   /\ ~touched
   /\ lastSave.mgr = last.mgr)
  => /\ last.ret.kind = "dict"
     /\ last.ret.val.email = lastSave.email
     /\ last.ret.val.password = lastSave.password

\* A load right after a successful save of an email with leading whitespace
\* returned the record.
C1_Witness ==
  /\ last.op = "load"
  /\ last.hit = {}
  /\ lastSave.kind = "some"
  /\ ~touched
  /\ lastSave.mgr = last.mgr
  /\ lastSave.email = <<" ", "b">>
  /\ last.ret.kind = "dict"

\* C2: after clear_credentials returns True the credential file does not
\* exist, and a load_credentials with no successful save since (whose stat of
\* the file does not fail) returns None; a clear_credentials that meets no
\* credential file (and no failing stat) returns True and changes nothing.
C2_ClearRemovesFile ==
  /\ (last.op = "clear" /\ last.ret = Bool(TRUE)) => ~Exists(credentials_file)
  /\ (last.op = "load" /\ lastSave.kind = "none" /\ "stat" \notin last.hit)
       => last.ret = None
  /\ (last.op = "clear" /\ ~last.existed /\ last.hit = {})
       => (last.ret = Bool(TRUE) /\ ~last.changed)

\* A clear_credentials removed an existing credential file and returned True.
C2_Witness ==
  /\ last.op = "clear"
  /\ last.ret = Bool(TRUE)
  /\ last.existed
  /\ last.changed

C4_KeyGeneratedOnce ==
  last.op = "init" =>
    /\ last.gen => ~last.existed
    /\ ~last.changed
    /\ (last.existed /\ last.ret = None) =>
          (key_file.kind = "key" /\ cipher_key[last.mgr] = key_file.key)

\* C5: save_credentials, load_credentials and clear_credentials never let an
\* exception propagate.
C5_NoExceptionPropagates ==
  last.op \in {"save", "load", "clear"} => last.ret.kind # "raise"

\* C6: load_credentials (whose stat of the file does not fail) returns None
\* both when the credential file is missing and when it exists but cannot be
\* decrypted with the manager's key, and leaves the file unchanged.
C6_MissingAndUndecryptableAlike ==
  (/\ last.op = "load"
   /\ "stat" \notin last.hit
   /\ (~Exists(credentials_file) \/ ~Loadable(last.mgr, credentials_file)))
  => (last.ret = None /\ ~last.changed /\ last.existed = Exists(credentials_file))

\* A load met a blob written under another manager's key, returned None
\* and left the blob in place.
C6_Witness ==
  /\ last.op = "load"
  /\ last.hit = {}
  /\ credentials_file.kind = "b64"
  /\ credentials_file.of.key # cipher_key[last.mgr]
  /\ last.ret = None

\* ------------------------------------------------ claims: credential resolution
\* C7: get_credentials returns the environment pair, without reading storage
\* or prompting, when both variables are set and non-empty; otherwise the
\* email and password of the stored record, without prompting, when storage
\* holds a record the load can read; and prompts only otherwise. Both returned
\* values come from the same source.
C7_CredentialPriority ==
  last.op = "get" =>
    LET envBoth == Truthy(last.envEmail) /\ Truthy(last.envPassword)
        stored == Loadable(last.mgr, last.pre) /\ "read" \notin last.hit
    IN /\ envBoth =>
            /\ last.ret = Pair(last.envEmail, last.envPassword)
            /\ ~last.readStorage
            /\ ~last.prompted
       /\ (~envBoth /\ "stat" \notin last.hit /\ stored) =>
            /\ last.ret = Pair(last.pre.of.plain[1][2], last.pre.of.plain[2][2])
            /\ ~last.prompted
       /\ (~envBoth /\ "stat" \notin last.hit /\ ~stored) =>
            /\ last.ret = Pair(Strip(last.typedEmail), Strip(last.typedPassword))
            /\ last.prompted

\* get_credentials returned the stored pair although CHATGPT_EMAIL alone was set.
C7_Witness ==
  /\ last.op = "get"
  /\ Truthy(last.envEmail)
  /\ ~Truthy(last.envPassword)
  /\ last.hit = {}
  /\ Loadable(last.mgr, last.pre)
  /\ last.ret = Pair(last.pre.of.plain[1][2], last.pre.of.plain[2][2])

\* --------------------------------------------------- claims: the API server
\* The invalid inputs the endpoints validate: a topic that is empty once
\* stripped, a text of more than 5000 characters, an upload whose extension
\* is neither .txt nor .md.
InvalidInput(req) ==
  \/ req.endpoint = "generate_script" /\ Strip(req.input) = <<>>
  \/ req.endpoint = "generate_voice" /\ req.input.len > MaxTextLength
  \/ /\ req.endpoint \in {"create_video", "upload_script"}
     /\ req.input # <<>>
     /\ Lower(path_suffix(req.input)) \notin allowed_extensions

\* C8: every endpoint answers invalid input (empty topic, text longer than
\* 5000 characters, an extension other than .txt/.md) with an error body of
\* the envelope shape {status, message, data} of the successful responses.
C8_UniformErrorEnvelope ==
  InvalidInput(request) =>
    /\ DOMAIN response.body = {"status", "message", "data"}
    /\ response.body.status = "error"

\* The status code a validation error of the request is raised with, 0 when
\* the request passes validation.
RaisedStatus(req) ==
  CASE req.endpoint = "generate_script" ->
         IF Strip(req.input) = <<>> THEN 400 ELSE 0
    [] req.endpoint = "generate_voice" ->
         IF req.input.blank \/ req.input.len > MaxTextLength THEN 400 ELSE 0
    [] req.endpoint \in {"create_video", "upload_script"} ->
         IF req.input = <<>> \/ Lower(path_suffix(req.input)) \notin allowed_extensions
           THEN 400 ELSE 0
    [] req.endpoint = "delete_file" ->
         IF ~is_relative_to(Resolve(OUTPUT_DIR \o req.input), OUTPUT_DIR) THEN 400
         ELSE IF Resolve(OUTPUT_DIR \o req.input) \notin req.pre \cup Dirs THEN 404
         ELSE 0
    [] OTHER -> 0

\* C9: a validation error raised inside an endpoint reaches the client with
\* the status code it was raised with: 400 for an empty topic, an empty or
\* over-long text, a missing filename, a disallowed extension and a delete
\* path outside the output directory; 404 for deleting a file that does not
\* exist.
C9_ValidationStatusReachesClient ==
  RaisedStatus(request) # 0 => response.status_code = RaisedStatus(request)

\* msg occurs in whole as a run of consecutive fragments.
Carries(whole, msg) ==
  \E i \in 0..(Len(whole) - Len(msg)) : SubSeq(whole, i + 1, i + Len(msg)) = msg

\* The endpoint called its stage function and the stage function raised.
StageFailed == request.called /\ request.stage.kind = "raise"

\* C10: when the stage function called by an endpoint raises, the endpoint
\* responds with HTTP 500, the response carries the stage function's message,
\* and the exception does not leave the endpoint unhandled (the response is
\* made from the endpoint's own HTTPException, not by the catch-all handler).
C10_StageFailureIs500WithMessage ==
  StageFailed =>
    /\ response.status_code = 500
    /\ response.via = "http_exception_handler"
    /\ Carries(response.body.message, request.stage.msg)

\* A video request whose upload was saved and whose stage function raised.
C10_Witness ==
  /\ StageFailed
  /\ request.endpoint = "create_video"
  /\ request.pre # fs
  /\ response.status_code = 500

\* C11: every successful response of the script, voice, video, upload, list
\* and delete endpoints is an envelope with status "success", a message and
\* a data field.
C11_SuccessEnvelope ==
  response.status_code = 200 =>
    /\ DOMAIN response.body = {"status", "message", "data"}
    /\ response.body.status = "success"
    /\ response.body.message # <<>>

\* A file was deleted: the one success whose data is None.
C11_Witness ==
  /\ request.endpoint = "delete_file"
  /\ response.status_code = 200
  /\ response.body.data = NoData
  /\ fs # request.pre

\* ---------------------------------------------------- claims: the pipeline
\* C12: pipeline.main invokes script_gen.run, voice_gen.run,
\* animation_gen.run, video_edit.run and upload_youtube.run exactly once
\* each, in that order, each only after the previous one has returned, never
\* two at a time.
C12_FixedLinearSequence ==
  /\ main.calls = SubSeq(Steps, 1, Len(main.calls))
  /\ Len(main.calls) - main.returned \in {0, 1}
  /\ (frame # NoFrame /\ frame.caller = "main") => Len(main.calls) = main.returned + 1
  /\ main.pc \in {"done", "raised"} => main.calls = Steps

\* The kind of artifact a parameter of a run function stands for.
ParamRole(name) ==
  CASE name \in {"script_file", "prompt_text"} -> "script"
    [] name = "final_video" -> "video"
    [] OTHER -> name

\* The kinds of the artifacts main passes at its k-th call.
ArgKinds(k) ==
  CASE k = 1 -> <<"theme">>
    [] k \in {2, 3} -> <<"script">>
    [] k = 4 -> <<"video", "audio">>
    [] k = 5 -> <<"video">>

\* C13: each stage receives the artifact of the stage that feeds it in the
\* role the receiving stage expects: the script file goes to the voice and
\* animation stages, the video-edit stage receives the animation's video and
\* the voice stage's audio as the video and the audio it combines.
C13_ArtifactsInTheirRole ==
  (frame # NoFrame /\ frame.caller = "main") =>
    \A i \in DOMAIN ArgKinds(main.step) :
      LET name == Signature(frame.fn)[i] IN
      /\ frame.params[name] = main_args(main, main.step)[i]
      /\ ParamRole(name) = ArgKinds(main.step)[i]

\* ------------------------------------------------ claims: the stage functions
\* The poll loop is in progress.
InPoll == frame.fn = "video_edit.run" /\ frame.pc = "poll"

\* A request of the call in progress is not answered.
Blocked == frame.fn = "video_edit.run" /\ frame.pc = "blocked"

\* At most 60 status requests are issued for one job; create_video returns
\* only after a status response "completed" with a video URL and a download;
\* it raises "Video generation timed out" exactly when all 60 polls were
\* neither completed nor failed.
PollLoopSafe ==
  /\ frame.fn = "video_edit.run" => frame.ext.status <= max_attempts
  /\ ret.fn = "video_edit.run" =>
       /\ ret.ext.status <= max_attempts
       /\ ret.out.kind = "return" =>
            /\ ret.completed /\ ret.ext.download = 1
            /\ ret.out.value.kind = "path" /\ ret.out.value.path \in fs
       /\ ret.attempts = max_attempts => ret.out = video_timed_out
       /\ ret.out = video_timed_out =>
            ret.ext.status = max_attempts /\ ~ret.completed

NoRetry(ext) == ext.create <= 1 /\ ~ext.after

\* C15: nothing is retried: within one call of a stage function the
\* generation/create request is issued at most once, and after a failed
\* external request (create, status or download) no further request is made.
C15_NothingRetried ==
  /\ frame # NoFrame => NoRetry(frame.ext)
  /\ ret # NoCall => NoRetry(ret.ext)

\* A video call that ended on a failed status request after several polls.
C15_Witness ==
  /\ ret.fn = "video_edit.run"
  /\ ret.ext.failed /\ ret.ext.status > 2
  /\ ret.out.kind = "raise"

StageFunctions ==
  {"script_gen.run", "voice_gen.run", "animation_gen.run", "video_edit.run"}

\* C16: every stage function (script, voice, animation, video-edit),
\* whenever it returns normally, returns the path of a file it has written
\* to the output directory.
C16_ReturnsWrittenFile ==
  (ret.fn \in StageFunctions /\ ret.out.kind = "return") =>
    /\ ret.out.value.kind = "path"
    /\ ret.out.value.path \in fs \ ret.pre
    /\ is_relative_to(ret.out.value.path, OUTPUT_DIR)

\* C18: no CLI-script operation lets a failure of its external call
\* propagate as an exception: a failure of the external call is converted
\* into a boolean/None sentinel return value.
C18_FailureBecomesSentinel ==
  (ret # NoCall /\ ret.ext.failed) =>
    /\ ret.out.kind = "return"
    /\ ret.out.value \in {None, Bool(FALSE)}

\* C19: delete_file never removes a file outside the output directory: for
\* every filename, including ones with ".." segments, the only path unlinked
\* resolves to a location inside OUTPUT_DIR, and when the request is
\* rejected or the file is missing no file is removed.
C19_DeleteStaysInOutputDir ==
  request.endpoint = "delete_file" =>
    /\ \A f \in request.pre \ fs :
         /\ f = Resolve(OUTPUT_DIR \o request.input)
         /\ Len(f) > Len(OUTPUT_DIR)
         /\ SubSeq(f, 1, Len(OUTPUT_DIR)) = OUTPUT_DIR
    /\ response.status_code # 200 => fs = request.pre

\* A file of the output directory was deleted under a name with "..".
C19_Witness ==
  /\ request.endpoint = "delete_file"
  /\ request.input[1] = ".."
  /\ response.status_code = 200
  /\ request.pre \ fs # {}

\* ------------------------------------------------- claims: the browser runs
\* The position of the first call of c in the log, 0 when there is none.
FirstCall(log, c) ==
  IF \E i \in DOMAIN log : log[i] = c
    THEN CHOOSE i \in DOMAIN log : log[i] = c /\ \A j \in 1..(i - 1) : log[j] # c
    ELSE 0

\* C17 as stated: on every run of run_login_test get_credentials completes
\* before setup_driver is called, and DOM interaction happens only after both.
C17_CredentialsBeforeBrowser ==
  session.fn = "run_login_test" =>
    /\ FirstCall(session.log, "setup_driver") # 0 =>
         /\ FirstCall(session.log, "get_credentials") # 0
         /\ FirstCall(session.log, "get_credentials") < FirstCall(session.log, "setup_driver")
    /\ FirstCall(session.log, "login_to_chatgpt") # 0 =>
         /\ FirstCall(session.log, "setup_driver") # 0
         /\ FirstCall(session.log, "get_credentials") # 0

\* C17, amended: on every run of run_login_test the browser session is
\* started before the credentials are resolved (setup_driver returns before
\* get_credentials is called), and DOM interaction happens only after both.
C17_BrowserBeforeCredentials ==
  session.fn = "run_login_test" =>
    /\ FirstCall(session.log, "get_credentials") # 0 =>
         /\ FirstCall(session.log, "setup_driver") # 0
         /\ FirstCall(session.log, "setup_driver") < FirstCall(session.log, "get_credentials")
    /\ FirstCall(session.log, "login_to_chatgpt") # 0 =>
         /\ FirstCall(session.log, "setup_driver") # 0
         /\ FirstCall(session.log, "get_credentials") # 0
         /\ FirstCall(session.log, "get_credentials") < FirstCall(session.log, "login_to_chatgpt")

\* A run that went through all three calls and closed the browser.
C17_Witness ==
  /\ session.fn = "run_login_test"
  /\ session.log = <<"setup_driver", "get_credentials", "login_to_chatgpt", "quit">>

\* C20: in run_login_test and in test_chatgpt, whenever a WebDriver was
\* created, driver.quit() is called exactly once before the function
\* returns, whether login/page load succeeded, failed, or raised.
C20_DriverQuitOnEveryPath ==
  session.pc = "returned" => session.quits = session.created

\* What one poll answered with status leads to.
PollOutcome(status) ==
  CASE status = "completed_url" ->
         /\ frame'.pc = "download"
         /\ frame'.ext.status = frame.ext.status + 1
         /\ frame'.ext.download = 0
    [] status \in {"failed", "completed_no_url", "not_ok"} ->
         /\ frame' = NoFrame
         /\ ret'.out.kind = "raise"
         /\ ret'.ext.status = frame.ext.status + 1
         /\ ret'.ext.download = 0
         /\ fs' = fs
    [] status = "pending" ->
         /\ frame'.pc = "poll"
         /\ frame'.attempts = frame.attempts + 1
         /\ frame'.attempts < max_attempts => poll_again(frame'.attempts)
    [] OTHER -> TRUE

\* C21: in create_video the first status response that is "completed" with a
\* video URL ends polling and is followed by exactly one download request; a
\* "failed" status, a "completed" status without a URL, or a non-OK status
\* response ends polling at once with an error, no download request and no
\* output file; any other status leads to another poll while fewer than 60
\* have been made.
C21_PollOutcomes ==
  [][/\ \A status \in StatusResponses : VideoPoll(status) => PollOutcome(status)
     /\ (frame.fn = "video_edit.run" /\ frame.pc = "download" /\ frame' = NoFrame) =>
          /\ ret'.ext.download = 1
          /\ ret'.ext.status = frame.ext.status
     /\ (InPoll /\ ~poll_again(frame.attempts)) => frame.attempts = max_attempts]_vars

\* A video was downloaded after several polls, with one download request.
C21_Witness ==
  /\ ret.fn = "video_edit.run"
  /\ ret.out.kind = "return"
  /\ ret.completed /\ ret.ext.status > 2
  /\ ret.ext.download = 1

\* The position of step c among the steps done, 0 when it was not done.
StepAt(dom, c) ==
  IF \E i \in DOMAIN dom : dom[i] = c THEN CHOOSE i \in DOMAIN dom : dom[i] = c ELSE 0

\* The steps of the claim, in its order.
ClaimedOrder ==
  <<"open_login_page", "type_email", "click_continue", "type_password",
    "click_continue_again", "wait_outcome">>

Rejected(req) ==
  \/ InvalidInput(req)
  \/ req.endpoint = "generate_voice" /\ req.input.blank
  \/ req.endpoint \in {"create_video", "upload_script"} /\ req.input = <<>>

\* C23: a request that /generate_script/, /generate_voice/, /create_video/
\* or /upload_script/ rejects for its input invokes no stage function and
\* writes no file: the output directory is as it was before the request.
C23_RejectionHasNoEffect ==
  Rejected(request) =>
    /\ ~request.called
    /\ fs = request.pre
    /\ response.status_code >= 400

\* A rejected upload to /create_video/ with files already in the directory.
C23_Witness ==
  /\ request.endpoint = "create_video"
  /\ Rejected(request)
  /\ request.input # <<>>
  /\ fs # {}

\* C24: the text limit of /generate_voice/ is 5000 characters inclusive: a
\* non-blank text of at most 5000 characters passes validation and reaches
\* voice_gen.generate_voice, a text of 5001 or more characters is rejected,
\* and an empty or whitespace-only text is rejected whatever its length.
C24_TextLimitInclusive ==
  request.endpoint = "generate_voice" =>
    LET text == request.input IN
    /\ (~text.blank /\ text.len <= 5000) => request.called
    /\ text.len >= 5001 => (~request.called /\ response.status_code >= 400)
    /\ text.blank => (~request.called /\ response.status_code >= 400)
    /\ request.called => (response.status_code = 200 <=> request.stage.kind # "raise")

\* A text of exactly 5000 characters was turned into a voice file.
C24_Witness ==
  /\ request.endpoint = "generate_voice"
  /\ request.input.len = 5000 /\ ~request.input.blank
  /\ request.called /\ response.status_code = 200
  /\ fs # request.pre

\* The call of the step ended with an exception, without any request to the
\* external API.
RaisedUntouched == frame' = NoFrame /\ ret'.out.kind = "raise" /\ ret'.ext = NoExt

\* The script file the call was given does not exist.
ScriptMissing ==
  /\ frame.params.script_file # None
  /\ ~path_exists(as_path(frame.params.script_file), fs)

\* C25: stage preconditions are checked before any external effect:
\* generate_script, generate_voice and create_video raise without a request
\* to the external API and without writing an output file when their API key
\* is missing, and create_video and generate_voice_from_file do the same
\* when the script file does not exist.  (video_edit.run writes its default
\* script before it enters create_video; create_video itself writes nothing.)
C25_PreconditionsBeforeEffects ==
  [][\A w \in Worlds :
       /\ (ScriptGenRun(w) /\ ~w.has_key) => (RaisedUntouched /\ fs' = fs)
       /\ (VoiceGenRun(w) /\ (~w.has_key \/ ScriptMissing)) => (RaisedUntouched /\ fs' = fs)
       /\ \A created \in CreateResponses :
            (VideoEditRun(w, created) /\ (~w.has_key \/ ScriptMissing)) =>
              /\ RaisedUntouched
              /\ fs' \subseteq fs \cup {default_script}
              /\ frame.params.script_file # None => fs' = fs]_vars

\* create_video was given an existing script and found no API key.
C25_Witness ==
  /\ ret.fn = "video_edit.run"
  /\ ret.params.script_file # None
  /\ path_exists(as_path(ret.params.script_file), ret.pre)
  /\ ret.out.kind = "raise" /\ ret.out.type = "ValueError"
  /\ ret.ext = NoExt /\ fs = ret.pre

\* The answer to "Save credentials securely?" is y or yes, in any case.
AnsweredYes(answer) == Lower(Strip(answer)) \in {<<"y">>, <<"y", "e", "s">>}

\* C26: get_credentials writes to the credential store only on the
\* user-input path and only when the user answers y or yes
\* (case-insensitive): when the credentials come from the environment or
\* from storage, or the user answers anything else, save_credentials is not
\* called and the credential file is left unchanged.
C26_SaveOnlyOnRequest ==
  last.op = "get" =>
    /\ (last.changed \/ last.saveRet # None) =>
         (last.prompted /\ AnsweredYes(last.answer))
    /\ (~last.prompted \/ ~AnsweredYes(last.answer)) =>
         (credentials_file = last.pre /\ last.saveRet = None)
    /\ (last.prompted /\ AnsweredYes(last.answer)) => last.saveRet # None

\* The user typed credentials and answered " YES": the file was written.
C26_Witness ==
  /\ last.op = "get"
  /\ last.prompted
  /\ last.answer = <<" ", "Y", "E", "S">>
  /\ last.saveRet = Bool(TRUE)
  /\ last.changed

\* C27: in pipeline.main a failed stage stops the pipeline:
\* upload_youtube.run is invoked only if the script, voice, animation and
\* video-edit stages all completed successfully, and video_edit.run is never
\* invoked with the result (None) of a failed animation stage.
C27_FailedStageStopsPipeline ==
  /\ main.step = 5 =>
       /\ main.returned >= 4
       /\ None \notin {main.script_file, main.audio_file, main.video_file, main.final_video}
  /\ main.pc = "raised" => (frame = NoFrame /\ main.returned = main.step - 1)
  /\ main.step >= 4 => main.video_file # None

====
